---------------------------- MODULE Spec2Model ----------------------------
(***************************************************************************)
(* Model of snowflake/connector/time_util.py:                              *)
(*   - HeartBeatTimer: a threading.Timer subclass whose run() loops on     *)
(*     the Event `finished`, waiting `interval` seconds per cycle and      *)
(*     calling `function` after every wait that the flag did not end;      *)
(*   - get_time_millis and the TimeCNM context manager;                    *)
(*   - DecorrelateJitterBackoff.next_sleep.                                *)
(* The three components share no state; each has its own specification     *)
(* (TimerSpec / FairTimerSpec, CNMSpec, BackoffSpec) over the one set of   *)
(* variables, the other components resting in their initial state.         *)
(***************************************************************************)
EXTENDS Integers, Sequences, FiniteSets, TLC

\* ------------------------------------------------------------------ bounds
\* Largest interval (in clock ticks) given to the constructor.
MaxInterval == 2
\* Number of wait cycles the loop may begin while the timer is not cancelled.
MaxCycles == 3
\* Largest raw wall-clock reading (in units of 1/TicksPerMilli ms).
MaxClock == 5
\* Number of times one TimeCNM object is entered.
MaxEntries == 2
\* Number of int(obj) reads recorded on one TimeCNM object.
MaxReads == 2
\* Largest base / cap / previous sleep given to DecorrelateJitterBackoff.
MaxBase == 3
MaxCap == 4
MaxSleep == 2

VARIABLES
    \* ---- HeartBeatTimer
    pc,                  \* position of the instance / its thread in run()
    interval,            \* self.interval
    finished,            \* self.finished (threading.Event flag)
    remaining,           \* ticks left of the last timed wait (kept after a wake)
    cycles,              \* waits begun (calls of self.finished.wait)
    timeouts,            \* waits that ended by timeout with the flag unset
    calls,               \* callback invocations begun
    caught,              \* exceptions caught and logged at debug level
    onlyExceptions,      \* every callback call so far raised an Exception
    observed,            \* run() has read the flag as set (line 30 or 32)
    callsAfterCancel,    \* callback invocations begun after cancel()
    callsAfterObserved,  \* callback invocations begun after run() saw the flag
    cancelledBeforeStart,\* cancel() was called before start()
    \* ---- wall clock and TimeCNM
    clock,               \* time.time() in raw ticks
    self_start,          \* self._start : Optional[int], <<>> is None
    self_end,            \* self._end   : Optional[int], <<>> is None
    scopeOpen,           \* a with-block on the object is executing
    entries,             \* __enter__ calls so far
    exits,               \* __exit__ calls so far
    startScope,          \* index of the scope that wrote self._start
    endScope,            \* index of the scope that wrote self._end
    enterClock,          \* raw clock at the last __enter__
    exitClock,           \* raw clock at the last __exit__
    clockWentBack,       \* the clock stepped backwards inside the open scope
    bodyRaised,          \* the last with-block body raised
    excPropagated,       \* the with statement re-raised after __exit__
    reads,               \* int(obj) calls so far
    lastRead,            \* outcome of the last int(obj)
    \* ---- DecorrelateJitterBackoff
    bk,                  \* "none" | "constructed"
    self_base,           \* self._base
    self_cap,            \* self._cap
    sleepArg,            \* `sleep` argument of the last next_sleep call
    bkOutcome,           \* "none" | "returned" | "ValueError"
    bkResult             \* value returned by the last next_sleep call

timerVars == <<pc, interval, finished, remaining, cycles, timeouts, calls,
               caught, onlyExceptions, observed, callsAfterCancel,
               callsAfterObserved, cancelledBeforeStart>>
cnmVars == <<clock, self_start, self_end, scopeOpen, entries, exits,
             startScope, endScope, enterClock, exitClock, clockWentBack,
             bodyRaised, excPropagated, reads, lastRead>>
bkVars == <<bk, self_base, self_cap, sleepArg, bkOutcome, bkResult>>
vars == <<timerVars, cnmVars, bkVars>>

\* Each component's operations leave the other two components alone.
TimerOnly == UNCHANGED <<cnmVars, bkVars>>
CNMOnly == UNCHANGED <<timerVars, bkVars>>
BackoffOnly == UNCHANGED <<timerVars, cnmVars>>

\* ========================================================== HeartBeatTimer

\* Intervals a caller may pass: the constructor accepts any number.
IntervalInputs == (-1)..MaxInterval

\* Outcomes of self.function(): it returns, raises an Exception (sub)class,
\* or raises a BaseException that is not an Exception (SystemExit, ...).
CallbackOutcomes == {"returns", "Exception", "BaseException"}

TimerIdle ==
    /\ pc = "noinstance"
    /\ interval = 0
    /\ finished = FALSE
    /\ remaining = 0
    /\ cycles = 0
    /\ timeouts = 0
    /\ calls = 0
    /\ caught = 0
    /\ onlyExceptions = TRUE
    /\ observed = FALSE
    /\ callsAfterCancel = 0
    /\ callsAfterObserved = 0
    /\ cancelledBeforeStart = FALSE

\* HeartBeatTimer.__init__(frequency, f): stores the interval as given and
\* creates the Event unset (threading.Timer.__init__); nothing is validated.
HB__init__(i) ==
    /\ pc = "noinstance"
    /\ pc' = "initial"
    /\ interval' = i
    /\ finished' = FALSE
    /\ UNCHANGED <<remaining, cycles, timeouts, calls, caught, onlyExceptions,
                   observed, callsAfterCancel, callsAfterObserved,
                   cancelledBeforeStart>>
    /\ TimerOnly

\* Thread.start(): the thread begins run() at the loop test.
Start ==
    /\ pc = "initial"
    /\ pc' = "loop"
    /\ UNCHANGED <<interval, finished, remaining, cycles, timeouts, calls,
                   caught, onlyExceptions, observed, callsAfterCancel,
                   callsAfterObserved, cancelledBeforeStart>>
    /\ TimerOnly

\* Timer.cancel(): self.finished.set(); callable at any time, any number of
\* times, from the caller's thread.
Cancel ==
    /\ pc # "noinstance"
    /\ finished' = TRUE
    /\ cancelledBeforeStart' = (cancelledBeforeStart \/ pc = "initial")
    /\ UNCHANGED <<pc, interval, remaining, cycles, timeouts, calls, caught,
                   onlyExceptions, observed, callsAfterCancel,
                   callsAfterObserved>>
    /\ TimerOnly

\* `while not self.finished.is_set()`: TRUE when the loop body is entered.
LoopBodyEntered_DoWhile(flag) == TRUE
LoopBodyEntered(flag) == ~flag

\* `if not self.finished.is_set()`: TRUE when the callback is to be called.
CallbackDue_Inverted(flag) == flag
CallbackDue(flag) == ~flag

\* Event.wait(timeout) returns without blocking when the flag is already
\* set or the timeout is not positive.
EventWaitReturnsAtOnce(flag, timeout) == flag \/ timeout <= 0

\* A blocked Event.wait wakes when the flag is set or the timeout has run out.
EventWaitWakes_SleepOnly(flag, rem) == rem = 0
EventWaitWakes(flag, rem) == flag \/ rem = 0

\* `except Exception`: TRUE when the handler catches what the callback raised.
HandlerCatches_Nothing(outcome) == FALSE
HandlerCatches(outcome) == outcome = "Exception"

\* Line 30, the loop test.  A new cycle is begun while the timer is not
\* cancelled only up to MaxCycles (the model's horizon).
LoopTest ==
    /\ pc = "loop"
    /\ finished \/ cycles < MaxCycles
    /\ pc' = IF LoopBodyEntered(finished) THEN "enter_wait" ELSE "done"
    /\ observed' = (observed \/ finished)
    /\ UNCHANGED <<interval, finished, remaining, cycles, timeouts, calls,
                   caught, onlyExceptions, callsAfterCancel,
                   callsAfterObserved, cancelledBeforeStart>>
    /\ TimerOnly

\* Line 31, self.finished.wait(self.interval) is called.
WaitEnter ==
    /\ pc = "enter_wait"
    /\ cycles' = cycles + 1
    /\ IF EventWaitReturnsAtOnce(finished, interval)
         THEN /\ pc' = "check"
              /\ remaining' = 0
              /\ timeouts' = IF finished THEN timeouts ELSE timeouts + 1
         ELSE /\ pc' = "wait"
              /\ remaining' = interval
              /\ timeouts' = timeouts
    /\ UNCHANGED <<interval, finished, calls, caught, onlyExceptions, observed,
                   callsAfterCancel, callsAfterObserved, cancelledBeforeStart>>
    /\ TimerOnly

\* Time passes while the thread is blocked in the wait.
Tick ==
    /\ pc = "wait"
    /\ remaining > 0
    /\ remaining' = remaining - 1
    /\ UNCHANGED <<pc, interval, finished, cycles, timeouts, calls, caught,
                   onlyExceptions, observed, callsAfterCancel,
                   callsAfterObserved, cancelledBeforeStart>>
    /\ TimerOnly

\* Line 31, the blocked wait returns (timeout or set()).
WaitWake ==
    /\ pc = "wait"
    /\ EventWaitWakes(finished, remaining)
    /\ pc' = "check"
    /\ timeouts' = IF finished THEN timeouts ELSE timeouts + 1
    /\ UNCHANGED <<interval, finished, remaining, cycles, calls, caught, onlyExceptions,
                   observed, callsAfterCancel, callsAfterObserved,
                   cancelledBeforeStart>>
    /\ TimerOnly

\* Line 32, the cancellation check after the wait.
CheckAfterWait ==
    /\ pc = "check"
    /\ pc' = IF CallbackDue(finished) THEN "call" ELSE "loop"
    /\ observed' = (observed \/ finished)
    /\ UNCHANGED <<interval, finished, remaining, cycles, timeouts, calls,
                   caught, onlyExceptions, callsAfterCancel,
                   callsAfterObserved, cancelledBeforeStart>>
    /\ TimerOnly

\* Line 34, self.function() is invoked.
CallBegin ==
    /\ pc = "call"
    /\ pc' = "in_callback"
    /\ calls' = calls + 1
    /\ callsAfterCancel' = callsAfterCancel + (IF finished THEN 1 ELSE 0)
    /\ callsAfterObserved' = callsAfterObserved + (IF observed THEN 1 ELSE 0)
    /\ UNCHANGED <<interval, finished, remaining, cycles, timeouts, caught,
                   onlyExceptions, observed, cancelledBeforeStart>>
    /\ TimerOnly

\* Lines 33-35, the callback finishes with outcome o: a return goes back to
\* the loop test, a caught exception to the handler, anything else leaves
\* run() and ends the thread.
CallbackEnd(o) ==
    /\ pc = "in_callback"
    /\ pc' = IF o = "returns" THEN "loop"
             ELSE IF HandlerCatches(o) THEN "except"
             ELSE "done"
    /\ onlyExceptions' = (onlyExceptions /\ o = "Exception")
    /\ UNCHANGED <<interval, finished, remaining, cycles, timeouts, calls,
                   caught, observed, callsAfterCancel, callsAfterObserved,
                   cancelledBeforeStart>>
    /\ TimerOnly

\* Line 36, logger.debug("failed to heartbeat: %s", e), then the loop test.
LogFailure ==
    /\ pc = "except"
    /\ pc' = "loop"
    /\ caught' = caught + 1
    /\ UNCHANGED <<interval, finished, remaining, cycles, timeouts, calls,
                   onlyExceptions, observed, callsAfterCancel,
                   callsAfterObserved, cancelledBeforeStart>>
    /\ TimerOnly

\* The steps of run() that the timer thread takes by itself.
ThreadStep ==
    \/ LoopTest
    \/ WaitEnter
    \/ WaitWake
    \/ CheckAfterWait
    \/ CallBegin
    \/ LogFailure

CallbackFinishes == \E o \in CallbackOutcomes : CallbackEnd(o)

TimerInit == TimerIdle

TimerNext ==
    \/ \E i \in IntervalInputs : HB__init__(i)
    \/ Start
    \/ Cancel
    \/ Tick
    \/ ThreadStep
    \/ CallbackFinishes

\* ============================================== get_time_millis and TimeCNM

\* Resolution of the model's raw clock: raw ticks per millisecond.
TicksPerMilli == 2

None == <<>>
Some(v) == <<v>>

\* int(time.time() * 1000): the raw clock scaled to milliseconds and
\* truncated (the clock counts from the epoch and is never negative).
get_time_millis(c) == c \div TicksPerMilli

NoRead == [kind |-> "none", value |-> 0, open |-> FALSE, entriesBefore |-> 0,
           exitsBefore |-> 0, scopes |-> <<0, 0>>, kept |-> TRUE]

CNMIdle ==
    /\ clock = 0
    /\ self_start = None
    /\ self_end = None
    /\ scopeOpen = FALSE
    /\ entries = 0
    /\ exits = 0
    /\ startScope = 0
    /\ endScope = 0
    /\ enterClock = 0
    /\ exitClock = 0
    /\ clockWentBack = FALSE
    /\ bodyRaised = FALSE
    /\ excPropagated = FALSE
    /\ reads = 0
    /\ lastRead = NoRead

\* TimeCNM.__init__: both timestamps None; the wall clock reads anything.
CNMInit ==
    /\ clock \in 0..MaxClock
    /\ self_start = None
    /\ self_end = None
    /\ scopeOpen = FALSE
    /\ entries = 0
    /\ exits = 0
    /\ startScope = 0
    /\ endScope = 0
    /\ enterClock = clock
    /\ exitClock = clock
    /\ clockWentBack = FALSE
    /\ bodyRaised = FALSE
    /\ excPropagated = FALSE
    /\ reads = 0
    /\ lastRead = NoRead

\* The wall clock moves forward.
ClockForward(t) ==
    /\ t > clock
    /\ clock' = t
    /\ UNCHANGED <<self_start, self_end, scopeOpen, entries, exits, startScope,
                   endScope, enterClock, exitClock, clockWentBack, bodyRaised,
                   excPropagated, reads, lastRead>>
    /\ CNMOnly

\* The wall clock is set back (time.time() is not monotonic).
ClockBackward(t) ==
    /\ t < clock
    /\ clock' = t
    /\ clockWentBack' = (clockWentBack \/ scopeOpen)
    /\ UNCHANGED <<self_start, self_end, scopeOpen, entries, exits, startScope,
                   endScope, enterClock, exitClock, bodyRaised, excPropagated,
                   reads, lastRead>>
    /\ CNMOnly

\* TimeCNM.__enter__: self._start = get_time_millis().
TimeCNM__enter__(now) == Some(get_time_millis(now))

\* TimeCNM.__exit__(exc_type, exc_val, exc_tb): self._end = get_time_millis()
\* whatever the exception arguments are; it returns None, so the with
\* statement does not suppress the body's exception.
TimeCNM__exit___OnlyOnSuccess(raised, now) ==
    [writesEnd |-> ~raised, end |-> get_time_millis(now), suppress |-> FALSE]
TimeCNM__exit__(raised, now) ==
    [writesEnd |-> TRUE, end |-> get_time_millis(now), suppress |-> FALSE]

\* TimeCNM.__int__: raises when either timestamp is None, else end - start;
\* it assigns nothing.
TimeCNM__int___EndDefaultsToStart(s, e) ==
    IF s = None
      THEN [kind |-> "Exception", value |-> 0, start |-> s, end |-> e]
      ELSE [kind |-> "value",
            value |-> (IF e = None THEN s[1] ELSE e[1]) - s[1],
            start |-> s, end |-> e]
TimeCNM__int__(s, e) ==
    IF s = None \/ e = None
      THEN [kind |-> "Exception", value |-> 0, start |-> s, end |-> e]
      ELSE [kind |-> "value", value |-> e[1] - s[1], start |-> s, end |-> e]

\* `with obj:` begins: __enter__ runs.  The object can be entered again
\* after a scope has closed.
Enter ==
    /\ ~scopeOpen
    /\ entries < MaxEntries
    /\ self_start' = TimeCNM__enter__(clock)
    /\ scopeOpen' = TRUE
    /\ entries' = entries + 1
    /\ startScope' = entries + 1
    /\ enterClock' = clock
    /\ clockWentBack' = FALSE
    /\ bodyRaised' = FALSE
    /\ excPropagated' = FALSE
    /\ UNCHANGED <<clock, self_end, exits, endScope, exitClock, reads, lastRead>>
    /\ CNMOnly

\* The with-block ends, normally or by an exception: __exit__ runs, and the
\* exception is re-raised unless __exit__ returned a true value.
Exit(raised) ==
    /\ scopeOpen
    /\ LET r == TimeCNM__exit__(raised, clock) IN
         /\ self_end' = IF r.writesEnd THEN Some(r.end) ELSE self_end
         /\ endScope' = IF r.writesEnd THEN entries ELSE endScope
         /\ excPropagated' = (raised /\ ~r.suppress)
    /\ scopeOpen' = FALSE
    /\ exits' = exits + 1
    /\ exitClock' = clock
    /\ bodyRaised' = raised
    /\ UNCHANGED <<clock, self_start, entries, startScope, enterClock,
                   clockWentBack, reads, lastRead>>
    /\ CNMOnly

\* int(obj), at any time.
Read ==
    /\ reads < MaxReads
    /\ LET r == TimeCNM__int__(self_start, self_end) IN
         /\ self_start' = r.start
         /\ self_end' = r.end
         /\ lastRead' = [kind |-> r.kind, value |-> r.value, open |-> scopeOpen,
                         entriesBefore |-> entries, exitsBefore |-> exits,
                         scopes |-> <<startScope, endScope>>,
                         kept |-> (r.start = self_start /\ r.end = self_end)]
    /\ reads' = reads + 1
    /\ UNCHANGED <<clock, scopeOpen, entries, exits, startScope, endScope,
                   enterClock, exitClock, clockWentBack, bodyRaised,
                   excPropagated>>
    /\ CNMOnly

CNMNext ==
    \/ \E t \in 0..MaxClock : ClockForward(t)
    \/ \E t \in 0..MaxClock : ClockBackward(t)
    \/ Enter
    \/ \E raised \in BOOLEAN : Exit(raised)
    \/ Read

\* ================================================ DecorrelateJitterBackoff

BackoffIdle ==
    /\ bk = "none"
    /\ self_base = 0
    /\ self_cap = 0
    /\ sleepArg = 0
    /\ bkOutcome = "none"
    /\ bkResult = 0

\* DecorrelateJitterBackoff.__init__(base, cap): stores both as given.
Backoff__init__(b, c) ==
    /\ bk = "none"
    /\ bk' = "constructed"
    /\ self_base' = b
    /\ self_cap' = c
    /\ UNCHANGED <<sleepArg, bkOutcome, bkResult>>
    /\ BackoffOnly

\* random.randint(a, b): any integer of a..b; ValueError on an empty range.
RandintOutcomes(a, b) ==
    IF a > b THEN {[kind |-> "ValueError", value |-> 0]}
    ELSE {[kind |-> "returned", value |-> n] : n \in a..b}

Min(x, y) == IF x <= y THEN x ELSE y

\* next_sleep(_, sleep) for one outcome of the draw:
\* min(self._cap, random.randint(self._base, sleep * 3)).
next_sleep(base, cap, draw) ==
    IF draw.kind = "ValueError" THEN draw
    ELSE [kind |-> "returned", value |-> Min(cap, draw.value)]

NextSleep(s) ==
    /\ bk = "constructed"
    /\ \E draw \in RandintOutcomes(self_base, s * 3) :
         LET r == next_sleep(self_base, self_cap, draw) IN
           /\ bkOutcome' = r.kind
           /\ bkResult' = r.value
    /\ sleepArg' = s
    /\ UNCHANGED <<bk, self_base, self_cap>>
    /\ BackoffOnly

BackoffInit == BackoffIdle

BackoffNext ==
    \/ \E b \in 0..MaxBase, c \in 0..MaxCap : Backoff__init__(b, c)
    \/ \E s \in 0..MaxSleep : NextSleep(s)

\* ========================================================= specifications

TimerSpecInit == TimerInit /\ CNMIdle /\ BackoffIdle
TimerSpec == TimerSpecInit /\ [][TimerNext]_vars

\* The timer thread is scheduled fairly and every callback call finishes;
\* the caller (start, cancel) and the passing of time are under no obligation.
FairTimerSpec ==
    /\ TimerSpec
    /\ WF_vars(ThreadStep)
    /\ WF_vars(CallbackFinishes)

CNMSpecInit == TimerIdle /\ CNMInit /\ BackoffIdle
CNMSpec == CNMSpecInit /\ [][CNMNext]_vars

BackoffSpecInit == TimerIdle /\ CNMIdle /\ BackoffInit
BackoffSpec == BackoffSpecInit /\ [][BackoffNext]_vars

Spec == TimerSpec

\* ================================================================= claims

\* ---- HeartBeatTimer

\* C1 as stated: once cancel() has been called, the loop never begins
\* another invocation of the callback, whatever the interleaving (stated
\* here for timers with a positive interval).
C1_NoCallbackBeginsAfterCancel == interval > 0 => callsAfterCancel = 0

\* C1 amended: after cancel() at most one callback invocation begins (the one
\* whose check at line 32 passed before cancel() set the flag), and once
\* run() has read the flag as set it begins no callback invocation at all.
C1_AtMostOneCallbackAfterCancel ==
    /\ callsAfterCancel <= 1
    /\ callsAfterObserved = 0
    /\ (observed => pc \in {"loop", "done"})

C1_Witness == interval > 0 /\ callsAfterCancel = 1 /\ observed /\ pc = "done"

C6_CancelBeforeStartNeverLoops ==
    /\ [](cancelledBeforeStart =>
            cycles = 0 /\ calls = 0 /\ pc \in {"initial", "loop", "done"})
    /\ ((cancelledBeforeStart /\ pc = "loop") ~> (pc = "done"))

C6_Witness == cancelledBeforeStart /\ pc = "done" /\ cycles = 0

\* C7 as stated: no HeartBeatTimer instance has an interval <= 0, so no
\* loop waits with one.
C7_NonPositiveIntervalRejected ==
    /\ (pc # "noinstance" => interval > 0)
    /\ (cycles > 0 => interval > 0)

\* C9: under fair scheduling of the timer thread, with every callback call
\* finishing, a started timer that is cancelled ends run() (no passing of
\* time is needed for it), and after run() has read the flag as set it is
\* never again in or about to enter a wait.
C9_CancelledLoopExits ==
    /\ [](observed => pc \in {"loop", "done"})
    /\ ((finished /\ pc \notin {"noinstance", "initial"}) ~> (pc = "done"))

C9_Witness ==
    interval > 0 /\ pc = "done" /\ finished /\ ~cancelledBeforeStart /\ cycles > 0 /\ remaining > 0

\* ---- DecorrelateJitterBackoff

\* C3 as stated: with base <= cap, every next_sleep call with sleep >= 0
\* returns a value v, base <= v <= cap, and does not fail.
C3_NextSleepWithinBaseAndCap ==
    (bkOutcome # "none" /\ self_base <= self_cap) =>
        (bkOutcome = "returned" /\ self_base <= bkResult /\ bkResult <= self_cap)

\* C8 as stated: with base <= cap and sleep * 3 <= base, next_sleep returns
\* exactly base.
C8_DegenerateRangeReturnsBase ==
    (bkOutcome # "none" /\ self_base <= self_cap /\ sleepArg * 3 <= self_base) =>
        (bkOutcome = "returned" /\ bkResult = self_base)

\* ---- TimeCNM

\* C4: int(obj) made before __exit__ has run on the object (never entered,
\* or entered and still open) raises and leaves _start and _end as they were.
C4_ReadBeforeExitRaises ==
    (lastRead.kind # "none" /\ lastRead.exitsBefore = 0) =>
        (lastRead.kind = "Exception" /\ lastRead.kept)

C4_Witness ==
    lastRead.kind = "Exception" /\ lastRead.exitsBefore = 0 /\ lastRead.open

\* C5: for an object entered once, after the scope has exited (normally or
\* by an exception, which is re-raised) _end is recorded by that exit,
\* int(obj) returns end - start, the difference of the two millisecond
\* readings, and that is >= 0 when the clock did not go backwards.
C5_EndRecordedOnEveryExit ==
    (entries = 1 /\ exits = 1) =>
        /\ self_end # None
        /\ endScope = 1
        /\ excPropagated = bodyRaised
        /\ LET r == TimeCNM__int__(self_start, self_end) IN
             /\ r.kind = "value"
             /\ r.value = self_end[1] - self_start[1]
             /\ r.value = (exitClock \div TicksPerMilli) - (enterClock \div TicksPerMilli)
             /\ ((~clockWentBack \/ exitClock >= enterClock) => r.value >= 0)
        /\ (lastRead.exitsBefore = 1 =>
              /\ lastRead.kind = "value"
              /\ lastRead.value = self_end[1] - self_start[1])

C5_Witness ==
    /\ entries = 1 /\ exits = 1 /\ bodyRaised /\ excPropagated
    /\ lastRead.kind = "value" /\ lastRead.exitsBefore = 1 /\ lastRead.value > 0

\* C10 as stated: whatever the sequence of enter, exit and read, a read that
\* returns a value is not made while a scope is open and returns end - start
\* of one and the same scope.
C10_ReadsNeverMixScopes ==
    lastRead.kind = "value" =>
        (~lastRead.open /\ lastRead.scopes[1] = lastRead.scopes[2])

=============================================================================
